---- MODULE Spec2Model ----
(***************************************************************************)
(* The diffusion engine of src/main.py (simulate and its helpers) as a     *)
(* state machine.  One call of simulate runs Reset, Seed, Step (once per   *)
(* time step) and Finalize; a caller may then call simulate again with the *)
(* same arguments on a fresh copy of the same graph (Rerun).               *)
(*                                                                         *)
(* Probabilities are exact fractions <<n, d>> in lowest terms.  The code   *)
(* uses IEEE doubles, whose rounding in the last bit the model does not    *)
(* follow.                                                                 *)
(***************************************************************************)
EXTENDS Integers, Sequences, FiniteSets, TLC

VARIABLES
    nodes,                  \* G.nodes: node id -> attribute dict
    edges,                  \* G.edges: <<u, v>> -> attribute dict
    initial_infected_list,  \* argument of simulate
    timesteps,              \* argument of simulate
    random_seed,            \* argument of simulate: <<>> (None) or <<s>>
    defaults,               \* the four default_* arguments of simulate
    rng,                    \* state of the process-wide random generator
    pc,                     \* position inside simulate
    t,                      \* loop variable of the step loop
    current_infected,       \* local of simulate
    infection_history,      \* local of simulate
    time_series_new,        \* local of simulate
    time_series_total,      \* local of simulate
    exposures,              \* local of simulate: ordered dict v -> p_list
    p_totals,               \* the p_total computed for each entry of exposures
    newly_infected,         \* local of simulate
    results,                \* <<>> until simulate returns, then <<dict>>
    input_nodes,            \* the caller's graph, of which each run gets a copy
    prev_results,           \* what the caller kept of the previous run
    run,                    \* number of the current call of simulate
    session_results,        \* app.py: st.session_state.results
    current_timestep        \* app.py: st.session_state.current_timestep

vars == <<nodes, edges, initial_infected_list, timesteps, random_seed, defaults,
          rng, pc, t, current_infected, infection_history, time_series_new,
          time_series_total, exposures, p_totals, newly_infected, results,
          input_nodes, prev_results, run, session_results, current_timestep>>

----------------------------------------------------------------------------
\* Bounds of the model.

MaxTimesteps == 2

MaxRuns == 2

----------------------------------------------------------------------------
\* Arithmetic on probabilities.

RECURSIVE GCD(_, _)
GCD(a, b) == IF b = 0 THEN a ELSE GCD(b, a % b)

Q(n, d) == IF n = 0 THEN <<0, 1>> ELSE LET g == GCD(n, d) IN <<n \div g, d \div g>>

Zero == Q(0, 1)
Quarter == Q(1, 4)
Half == Q(1, 2)
ThreeQuarters == Q(3, 4)
One == Q(1, 1)

Mul(x, y) == Q(x[1] * y[1], x[2] * y[2])

OneMinus(x) == Q(x[2] - x[1], x[2])

Less(x, y) == x[1] * y[2] < y[1] * x[2]

Positive(x) == x[1] > 0

----------------------------------------------------------------------------
\* Python values.  None and a missing dict key are both <<>> where the code
\* reads the key with a default of None; a present value x is <<x>>.

None == <<>>

Some(x) == <<x>>

\* A node's "state" is a string; these two stand for a missing key and for None.
AbsentState == "<absent>"
NoneState == "<None>"

\* A seed list entry that is None.
NoneId == "<None>"

----------------------------------------------------------------------------
\* Graph access (the helper functions of main.py).

NodeOrder == <<"a", "b", "c", "d">>

Nodes == {NodeOrder[i] : i \in 1..Len(NodeOrder)}

RECURSIVE FilterSeq(_, _)
FilterSeq(s, S) ==
    IF s = <<>> THEN <<>>
    ELSE IF Head(s) \in S THEN <<Head(s)>> \o FilterSeq(Tail(s), S)
    ELSE FilterSeq(Tail(s), S)

get_nodes == NodeOrder

neighbors(E, n) == FilterSeq(NodeOrder, {v \in Nodes : <<n, v>> \in DOMAIN E})

set_node_attr(nd, n, key, value) == [nd EXCEPT ![n][key] = value]

get_infected_nodes(nd) == FilterSeq(get_nodes, {n \in Nodes : nd[n].state = "infected"})

SeqToSet(s) == {s[i] : i \in 1..Len(s)}

----------------------------------------------------------------------------
\* simulate, lines 98-104: seed the generator, "reset" the node states.

\* The stream random.seed(s) starts: a fixed sequence of draws in [0, 1).
SeededStream(s) == IF s = 1 THEN <<ThreeQuarters, Quarter>> ELSE <<Quarter, ThreeQuarters>>

\* random.seed(random_seed) when a seed is given; else the generator is untouched.
SeedRng(seed, r) == IF seed # None THEN [stream |-> SeededStream(seed[1]), pos |-> 1] ELSE r

\* random.random(): the next draw of the stream.
NextDraw(r) == r.stream[r.pos]

Advance(r) == [r EXCEPT !.pos = (r.pos % Len(r.stream)) + 1]

\* data.get("state", "uninfected"): the value the node carries, unless the key is missing.
ResetState(data) == IF data.state = AbsentState THEN "uninfected" ELSE data.state

\* data.get("infection_time", None): the value the node carries.
ResetInfectionTime(data) == data.infection_time

\* As ResetNodes, but the node's dict is rebuilt and tendency_to_share is lost.
ResetNodesClearing(nd) ==
    [n \in Nodes |->
        [nd[n] EXCEPT !.state = ResetState(nd[n]),
                      !.infection_time = ResetInfectionTime(nd[n]),
                      !.tendency_to_share = None]]

ResetNodes(nd) ==
    [n \in Nodes |->
        [nd[n] EXCEPT !.state = ResetState(nd[n]),
                      !.infection_time = ResetInfectionTime(nd[n])]]

----------------------------------------------------------------------------
\* simulate, lines 106-110: seed the initially infected nodes.

\* The condition of line 108 for a seed s that is a node of the graph.
SeedAccepted(nd, s) == ~nd[s].is_fact_checker /\ nd[s].state # NoneState

MarkInfected(nd, n, time) ==
    set_node_attr(set_node_attr(nd, n, "state", "infected"), n, "infection_time", Some(time))

\* The loop of lines 107-110 over the rest of the seed list.  G.nodes[s] raises
\* KeyError for an s that is not a node; the nodes seeded before it stay seeded.
RECURSIVE SeedLoop(_, _)
SeedLoop(nd, list) ==
    IF list = <<>> THEN [nodes |-> nd, raised |-> FALSE]
    ELSE LET s == Head(list) IN
         IF s = NoneId THEN SeedLoop(nd, Tail(list))
         ELSE IF s \notin Nodes THEN [nodes |-> nd, raised |-> TRUE]
         ELSE IF SeedAccepted(nd, s) THEN SeedLoop(MarkInfected(nd, s, 0), Tail(list))
         ELSE SeedLoop(nd, Tail(list))

----------------------------------------------------------------------------
\* simulate, lines 122-151: the exposures of one step.

\* Lines 128-133: u's effective tendency_to_share.
Tendency(nd, dflt, u) ==
    IF nd[u].tendency_to_share # None THEN nd[u].tendency_to_share[1]
    ELSE IF nd[u].identity_type = "anonymous" THEN dflt.default_propensity_anonymous
    ELSE dflt.default_propensity_verified

\* Line 140: v's credulity, 0.0 when missing.
Credulity(nd, v) == IF nd[v].credulity # None THEN nd[v].credulity[1] ELSE Zero

\* As Trust, but the default is chosen by the target's identity_type.
TrustByTarget(nd, E, dflt, u, v) ==
    IF E[<<u, v>>].trust_weight # None THEN E[<<u, v>>].trust_weight[1]
    ELSE IF nd[v].identity_type = "verified" THEN dflt.default_trust_from_verified
    ELSE dflt.default_trust_from_anonymous

\* Lines 143-146: the effective trust of edge (u, v).
Trust(nd, E, dflt, u, v) ==
    IF E[<<u, v>>].trust_weight # None THEN E[<<u, v>>].trust_weight[1]
    ELSE IF nd[u].identity_type = "verified" THEN dflt.default_trust_from_verified
    ELSE dflt.default_trust_from_anonymous

\* Line 149.
PExposure(nd, E, dflt, u, v) ==
    Mul(Mul(Credulity(nd, v), Tendency(nd, dflt, u)), Trust(nd, E, dflt, u, v))

\* As Recorded, without the test for p_exposure > 0.
RecordedAlways(p) == TRUE

\* Line 150: whether the exposure is recorded.
Recorded(p) == Positive(p)

\* exposures[v].append(p) on the defaultdict: a new key goes last.
Append2(exps, v, p) ==
    IF \E i \in 1..Len(exps) : exps[i].v = v
    THEN [i \in 1..Len(exps) |->
            IF exps[i].v = v THEN [exps[i] EXCEPT !.p_list = Append(@, p)] ELSE exps[i]]
    ELSE Append(exps, [v |-> v, p_list |-> <<p>>])

\* As Exposable, without the test of v's state (lines 138-139).
ExposableAny(nd, v) == ~nd[v].is_fact_checker

\* Lines 136-139: whether neighbour v is exposed at all.
Exposable(nd, v) == ~nd[v].is_fact_checker /\ nd[v].state = "uninfected"

\* Lines 135-151 for source u, over the rest vs of its neighbours.
RECURSIVE ExposeNeighbors(_, _, _, _, _, _)
ExposeNeighbors(nd, E, dflt, u, vs, exps) ==
    IF vs = <<>> THEN exps
    ELSE LET v == Head(vs)
             p == PExposure(nd, E, dflt, u, v)
         IN  IF Exposable(nd, v) /\ Recorded(p)
             THEN ExposeNeighbors(nd, E, dflt, u, Tail(vs), Append2(exps, v, p))
             ELSE ExposeNeighbors(nd, E, dflt, u, Tail(vs), exps)

\* As IsSource, without the test of lines 125-126.
IsSourceAny(nd, u) == TRUE

\* Lines 125-126: a fact-checker in current_infected is skipped as a source.
IsSource(nd, u) == ~nd[u].is_fact_checker

\* As ExposeSources, but a node exposed in this step at once becomes a source
\* itself (the step reads state it has just written).
RECURSIVE ExposeSourcesEager(_, _, _, _, _)
ExposeSourcesEager(nd, E, dflt, us, exps) ==
    IF us = <<>> THEN exps
    ELSE LET u == Head(us)
             after == IF IsSource(nd, u)
                      THEN ExposeNeighbors(nd, E, dflt, u, neighbors(E, u), exps)
                      ELSE exps
             fresh == [i \in 1..(Len(after) - Len(exps)) |-> after[Len(exps) + i].v]
         IN  ExposeSourcesEager(nd, E, dflt, Tail(us) \o fresh, after)

\* Lines 124-151 over the rest us of list(current_infected).
RECURSIVE ExposeSources(_, _, _, _, _)
ExposeSources(nd, E, dflt, us, exps) ==
    IF us = <<>> THEN exps
    ELSE LET u == Head(us) IN
         IF IsSource(nd, u)
         THEN ExposeSources(nd, E, dflt, Tail(us),
                            ExposeNeighbors(nd, E, dflt, u, neighbors(E, u), exps))
         ELSE ExposeSources(nd, E, dflt, Tail(us), exps)

\* list(current_infected): a set of strings is iterated in the order of the
\* process's hash seed, so any order of the set can come out.
IterationOrders(S) ==
    {s \in [1..Cardinality(S) -> S] : \A i, j \in 1..Cardinality(S) : i # j => s[i] # s[j]}

----------------------------------------------------------------------------
\* simulate, lines 153-160: noisy-OR and sampling.

\* Lines 155-157.
RECURSIVE ProbNo(_, _)
ProbNo(p_list, prob_no) ==
    IF p_list = <<>> THEN prob_no
    ELSE ProbNo(Tail(p_list), Mul(prob_no, OneMinus(Head(p_list))))

\* As PTotal, but line 158 is left out: the draw is compared with prob_no.
PTotalNo(p_list) == ProbNo(p_list, One)

\* As PTotal, but the exposure probabilities are added up.
RECURSIVE SumOf(_)
SumOf(p_list) ==
    IF p_list = <<>> THEN Zero
    ELSE LET x == Head(p_list)
             y == SumOf(Tail(p_list))
         IN  Q(x[1] * y[2] + y[1] * x[2], x[2] * y[2])

PTotalSum(p_list) == SumOf(p_list)

\* Line 158.
PTotal(p_list) == OneMinus(ProbNo(p_list, One))

\* Line 159.
Hit(draw, p_total) == Less(draw, p_total)

\* Lines 154-160 over the rest of exposures.items(): one draw per exposed node.
RECURSIVE SampleLoop(_, _, _)
SampleLoop(exps, r, newly) ==
    IF exps = <<>> THEN [newly |-> newly, rng |-> r]
    ELSE SampleLoop(Tail(exps), Advance(r),
                    IF Hit(NextDraw(r), PTotal(Head(exps).p_list))
                    THEN Append(newly, Head(exps).v) ELSE newly)

\* As ApplyNewly, but a node informed before the step recovers.
ApplyNewlyRecovering(nd, newly, time) ==
    [n \in Nodes |->
        IF n \in SeqToSet(newly)
        THEN [nd[n] EXCEPT !.state = "infected", !.infection_time = Some(time)]
        ELSE IF nd[n].state = "infected" THEN [nd[n] EXCEPT !.state = "uninfected"]
        ELSE nd[n]]

\* Lines 162-164.
RECURSIVE ApplyNewly(_, _, _)
ApplyNewly(nd, newly, time) ==
    IF newly = <<>> THEN nd
    ELSE ApplyNewly(MarkInfected(nd, Head(newly), time), Tail(newly), time)

----------------------------------------------------------------------------
\* simulate, lines 172-180: the returned dict.

InfectionTimes(nd) == [n \in Nodes |-> nd[n].infection_time]

FinalInfected(nd) == FilterSeq(get_nodes, {n \in Nodes : nd[n].infection_time # None})

Trace(nd, new, total, history) ==
    [time_series_new |-> new,
     time_series_total |-> total,
     infection_times |-> InfectionTimes(nd),
     infection_history |-> history,
     final_infected |-> FinalInfected(nd)]

----------------------------------------------------------------------------
\* The inputs of a run: the bounded sets Init draws from.

NodeDict(fc, identity, cred, tend, st, it) ==
    [is_fact_checker |-> fc, identity_type |-> identity, credulity |-> cred,
     tendency_to_share |-> tend, state |-> st, infection_time |-> it]

EdgeDict(tw) == [trust_weight |-> tw]

\* Two sources with one target each.
Cross ==
    (<<"a", "c">> :> EdgeDict(Some(One))) @@ (<<"b", "d">> :> EdgeDict(Some(Half)))

\* Two sources with a common target, a self-loop, an edge without trust_weight.
FanIn ==
    (<<"a", "c">> :> EdgeDict(Some(Half))) @@ (<<"b", "c">> :> EdgeDict(Some(Half)))
    @@ (<<"a", "a">> :> EdgeDict(Some(One))) @@ (<<"c", "d">> :> EdgeDict(None))

\* A cycle with a zero-trust edge and edges without trust_weight.
Cycle ==
    (<<"a", "c">> :> EdgeDict(None)) @@ (<<"c", "d">> :> EdgeDict(Some(One)))
    @@ (<<"d", "a">> :> EdgeDict(Some(Zero))) @@ (<<"b", "d">> :> EdgeDict(None))

Topologies == {Cross, FanIn, Cycle}

\* identity_type, credulity, tendency_to_share of each node.
Explicit ==
    [n \in Nodes |->
        [identity_type |-> IF n \in {"a", "c"} THEN "verified" ELSE "anonymous",
         credulity |-> Some(One), tendency_to_share |-> Some(One)]]

Sparse ==
    [n \in Nodes |->
        [identity_type |-> IF n \in {"a", "d"} THEN "verified" ELSE "anonymous",
         credulity |-> IF n = "d" THEN None ELSE IF n = "c" THEN Some(One) ELSE Some(Half),
         tendency_to_share |-> IF n = "d" THEN Some(Zero) ELSE None]]

Profiles == {Explicit, Sparse}

FactCheckerSets == {{}, {"a"}, {"c"}}

\* The state and infection_time a node carries on entry: as main.py's example
\* nodes ("uninfected", None), or for one node something else (left by an earlier
\* run on the same graph object, loaded from a file, or missing).
CleanMark == [node |-> NoneId, state |-> "uninfected", infection_time |-> None]

Marks ==
    {CleanMark} \cup
    {[node |-> n, state |-> m[1], infection_time |-> m[2]] :
        n \in {"a", "c"},
        m \in {<<"infected", Some(1)>>, <<"infected", None>>, <<AbsentState, None>>,
               <<NoneState, None>>, <<"uninfected", Some(1)>>}}

InputGraphNodes(profile, fcs, mark) ==
    [n \in Nodes |->
        NodeDict(n \in fcs, profile[n].identity_type, profile[n].credulity,
                 profile[n].tendency_to_share,
                 IF n = mark.node THEN mark.state ELSE "uninfected",
                 IF n = mark.node THEN mark.infection_time ELSE None)]

\* "z" is not a node of the graph.
SeedLists ==
    {<<>>, <<"a">>, <<"c">>, <<"a", "b">>, <<"a", "z">>, <<"z", "a">>, <<NoneId, "b">>}

\* The default_* parameters: as declared (lines 92-95), and a set out of [0, 1].
DeclaredDefaults ==
    [default_propensity_anonymous |-> Q(4, 5), default_propensity_verified |-> Q(3, 10),
     default_trust_from_verified |-> Q(9, 10), default_trust_from_anonymous |-> Q(3, 10)]

OutOfRangeDefaults ==
    [DeclaredDefaults EXCEPT !.default_propensity_anonymous = Q(3, 2)]

DefaultsSets == {DeclaredDefaults, OutOfRangeDefaults}

InRange(p) == ~Less(p, Zero) /\ ~Less(One, p)

ValidDefaults(d) ==
    /\ InRange(d.default_propensity_anonymous)
    /\ InRange(d.default_propensity_verified)
    /\ InRange(d.default_trust_from_verified)
    /\ InRange(d.default_trust_from_anonymous)

RandomSeeds == {None, Some(1)}

\* The generator's state on entry, which a run without random_seed goes on from.
EntryRng == [stream |-> <<Zero, ThreeQuarters, Quarter>>, pos |-> 1]

----------------------------------------------------------------------------
\* The state machine.

Init ==
    /\ \E profile \in Profiles, fcs \in FactCheckerSets, mark \in Marks :
          /\ input_nodes = InputGraphNodes(profile, fcs, mark)
          /\ nodes = input_nodes
    /\ edges \in Topologies
    /\ initial_infected_list \in SeedLists
    /\ timesteps \in 0..MaxTimesteps
    /\ random_seed \in RandomSeeds
    /\ defaults \in DefaultsSets
    /\ rng = EntryRng
    /\ pc = "initializing"
    /\ t = 0
    /\ current_infected = {}
    /\ infection_history = <<>>
    /\ time_series_new = <<>>
    /\ time_series_total = <<>>
    /\ exposures = <<>>
    /\ p_totals = <<>>
    /\ newly_infected = <<>>
    /\ results = None
    /\ prev_results = None
    /\ run = 1
    /\ session_results = None
    /\ current_timestep = 0

\* The session state of app.py, which simulate does not touch.
session == <<session_results, current_timestep>>

args == <<edges, initial_infected_list, timesteps, random_seed, defaults, input_nodes>>

\* Lines 98-104.
Reset ==
    /\ pc = "initializing"
    /\ rng' = SeedRng(random_seed, rng)
    /\ nodes' = ResetNodes(nodes)
    /\ pc' = "seeding"
    /\ UNCHANGED <<session, args, t, current_infected, infection_history, time_series_new,
                   time_series_total, exposures, p_totals, newly_infected, results,
                   prev_results, run>>

\* Lines 106-119.  A KeyError leaves simulate without a result.
Seed ==
    /\ pc = "seeding"
    /\ LET r == SeedLoop(nodes, initial_infected_list) IN
          /\ nodes' = r.nodes
          /\ IF r.raised
             THEN /\ pc' = "raised"
                  /\ UNCHANGED <<t, current_infected, infection_history,
                                 time_series_new, time_series_total>>
             ELSE /\ pc' = "stepping"
                  /\ t' = 1
                  /\ current_infected' = SeqToSet(get_infected_nodes(nodes'))
                  /\ infection_history' = <<current_infected'>>
                  /\ time_series_new' = <<Cardinality(current_infected')>>
                  /\ time_series_total' = <<Cardinality(current_infected')>>
    /\ UNCHANGED <<session, args, rng, exposures, p_totals, newly_infected, results,
                   prev_results, run>>

\* Lines 121-170: one iteration of the step loop.
Step ==
    /\ pc = "stepping"
    /\ t <= timesteps
    /\ \E order \in IterationOrders(current_infected) :
          LET exps == ExposeSources(nodes, edges, defaults, order, <<>>)
              sampled == SampleLoop(exps, rng, <<>>)
          IN  /\ exposures' = exps
              /\ p_totals' = [i \in 1..Len(exps) |-> PTotal(exps[i].p_list)]
              /\ newly_infected' = sampled.newly
              /\ rng' = sampled.rng
              /\ nodes' = ApplyNewly(nodes, sampled.newly, t)
              /\ current_infected' = SeqToSet(get_infected_nodes(nodes'))
              /\ infection_history' = Append(infection_history, current_infected')
              /\ time_series_new' = Append(time_series_new, Len(sampled.newly))
              /\ time_series_total' = Append(time_series_total, Cardinality(current_infected'))
    /\ t' = t + 1
    /\ UNCHANGED <<session, args, pc, results, prev_results, run>>

\* Lines 172-180: the loop is over, simulate returns.
Finalize ==
    /\ pc = "stepping"
    /\ t > timesteps
    /\ results' = Some(Trace(nodes, time_series_new, time_series_total, infection_history))
    /\ pc' = "finalized"
    /\ UNCHANGED <<session, args, nodes, rng, t, current_infected, infection_history,
                   time_series_new, time_series_total, exposures, p_totals,
                   newly_infected, prev_results, run>>

\* The caller keeps the result and calls simulate again, with the same arguments,
\* on a fresh copy of the same graph.
Rerun ==
    /\ pc = "finalized"
    /\ run < MaxRuns
    /\ run' = run + 1
    /\ prev_results' = results
    /\ results' = None
    /\ nodes' = input_nodes
    /\ pc' = "initializing"
    /\ t' = 0
    /\ current_infected' = {}
    /\ infection_history' = <<>>
    /\ time_series_new' = <<>>
    /\ time_series_total' = <<>>
    /\ exposures' = <<>>
    /\ p_totals' = <<>>
    /\ newly_infected' = <<>>
    /\ UNCHANGED <<args, rng, session>>

Next == Reset \/ Seed \/ Step \/ Finalize \/ Rerun

Spec == Init /\ [][Next]_vars

----------------------------------------------------------------------------
\* app.py: the session around simulate.  Every click reruns the script; the
\* script is idle between clicks.

\* The seed lists the multiselect of lines 103-118 offers: nodes of the graph
\* that are not fact-checkers.
SessionSeedLists(nd) ==
    {l \in {<<>>, <<"b">>, <<"a", "b">>} : \A i \in 1..Len(l) : ~nd[l[i]].is_fact_checker}

\* As CursorAfterRun, but the step cursor is left where it was.
CursorKept(cursor) == cursor

\* Line 157.
CursorAfterRun(cursor) == 0

\* Lines 54-57, with a graph that enters clean and the sliders at their defaults.
InitSession ==
    /\ \E profile \in Profiles, fcs \in FactCheckerSets :
          /\ input_nodes = InputGraphNodes(profile, fcs, CleanMark)
          /\ nodes = input_nodes
    /\ edges \in Topologies
    /\ initial_infected_list = <<>>
    /\ timesteps = 1
    /\ random_seed = None
    /\ defaults = DeclaredDefaults
    /\ rng = EntryRng
    /\ pc = "idle"
    /\ t = 0
    /\ current_infected = {}
    /\ infection_history = <<>>
    /\ time_series_new = <<>>
    /\ time_series_total = <<>>
    /\ exposures = <<>>
    /\ p_totals = <<>>
    /\ newly_infected = <<>>
    /\ results = None
    /\ prev_results = None
    /\ run = 1
    /\ session_results = None
    /\ current_timestep = 0

\* Lines 146-156: "Run simulation" is clicked; simulate is called on a copy of the
\* graph with the sidebar's number of timesteps (at least 1) and seed selection.
RunClick ==
    /\ pc = "idle"
    /\ timesteps' \in 1..MaxTimesteps
    /\ initial_infected_list' \in SessionSeedLists(input_nodes)
    /\ nodes' = input_nodes
    /\ pc' = "initializing"
    /\ t' = 0
    /\ current_infected' = {}
    /\ infection_history' = <<>>
    /\ time_series_new' = <<>>
    /\ time_series_total' = <<>>
    /\ exposures' = <<>>
    /\ p_totals' = <<>>
    /\ newly_infected' = <<>>
    /\ results' = None
    /\ UNCHANGED <<edges, random_seed, defaults, input_nodes, rng, prev_results, run,
                   session>>

\* Lines 148 and 157: simulate has returned; the result is stored and the step
\* cursor is set.
RunReturn ==
    /\ pc = "finalized"
    /\ session_results' = results
    /\ current_timestep' = CursorAfterRun(current_timestep)
    /\ pc' = "idle"
    /\ UNCHANGED <<args, nodes, rng, t, current_infected, infection_history,
                   time_series_new, time_series_total, exposures, p_totals,
                   newly_infected, results, prev_results, run>>

engine == <<args, nodes, rng, pc, t, current_infected, infection_history,
            time_series_new, time_series_total, exposures, p_totals,
            newly_infected, results, prev_results, run>>

\* Lines 171-172: "Step -1".
StepBack ==
    /\ pc = "idle"
    /\ session_results # None
    /\ current_timestep > 0
    /\ current_timestep' = current_timestep - 1
    /\ UNCHANGED <<engine, session_results>>

\* Lines 175-176: "Step +1".
StepForward ==
    /\ pc = "idle"
    /\ session_results # None
    /\ current_timestep < Len(session_results[1].infection_history) - 1
    /\ current_timestep' = current_timestep + 1
    /\ UNCHANGED <<engine, session_results>>

\* Lines 179-180: "Go to end".
GoToEnd ==
    /\ pc = "idle"
    /\ session_results # None
    /\ current_timestep' = Len(session_results[1].infection_history) - 1
    /\ UNCHANGED <<engine, session_results>>

NextSession ==
    RunClick \/ Reset \/ Seed \/ Step \/ Finalize \/ RunReturn
        \/ StepBack \/ StepForward \/ GoToEnd

SpecSession == InitSession /\ [][NextSession]_vars

----------------------------------------------------------------------------
\* Notions the claims use.

\* infection_history[t] of the claims is infection_history[t + 1] here.
Steps == Len(infection_history) - 1

IsFactChecker(n) == nodes[n].is_fact_checker

\* The seed ids that exist in the graph and are not fact-checkers.
ProperSeeds == {s \in SeqToSet(initial_infected_list) \cap Nodes : ~IsFactChecker(s)}

\* random.random() as drawn for the i-th entry of exposures in the last step.
DrawOfEntry(i) ==
    LET L == Len(rng.stream)
        k == Len(exposures)
    IN  rng.stream[((rng.pos - 1 + (i - 1) + (L - 1) * k) % L) + 1]

Add(x, y) == Q(x[1] * y[2] + y[1] * x[2], x[2] * y[2])

Sub(x, y) == Q(x[1] * y[2] - y[1] * x[2], x[2] * y[2])

\* The probability that at least one of independent events happens, by
\* P(A or B) = P(A) + P(B) - P(A) P(B).
RECURSIVE EitherOf(_)
EitherOf(p_list) ==
    IF p_list = <<>> THEN Zero
    ELSE LET q == EitherOf(Tail(p_list)) IN
         Sub(Add(Head(p_list), q), Mul(Head(p_list), q))

\* u exposed v in the last step, with probability p (as the code computes it).
\* The attributes that decide p never change; v's state is read before the step.
InformedBefore == infection_history[Len(infection_history) - 1]

ExposedBy(u, v) ==
    /\ Steps >= 1
    /\ u \in InformedBefore
    /\ ~IsFactChecker(u)
    /\ <<u, v>> \in DOMAIN edges
    /\ ~IsFactChecker(v)
    /\ \/ nodes[v].state = "uninfected"
       \/ v \in SeqToSet(newly_infected)

----------------------------------------------------------------------------
\* The claims.

\* C1: infection_history[t] is a subset of infection_history[t+1] for every t of
\* the run: an informed node stays informed.
C1_Monotonic ==
    \A i \in 1..(Len(infection_history) - 1) :
        infection_history[i] \subseteq infection_history[i + 1]

\* C1's case: two steps were taken, a seeded node and a node informed at step 1
\* are both still informed after step 2.
C1_Witness ==
    /\ Len(infection_history) >= 3
    /\ infection_history[1] # {}
    /\ infection_history[2] # infection_history[1]
    /\ infection_history[2] \subseteq infection_history[3]

\* C2 (as claimed): no fact-checker is ever in infection_history, and every
\* fact-checker ends the run uninformed with infection_time None, whatever the
\* input graph carries.
C2_FactCheckerImmunity ==
    \A n \in Nodes :
        IsFactChecker(n) =>
            /\ \A i \in 1..Len(infection_history) : n \notin infection_history[i]
            /\ pc = "finalized" =>
                  nodes[n].state = "uninfected" /\ nodes[n].infection_time = None

\* C3 (as claimed): after the reset every node is uninformed with infection_time
\* None, so infection_history[0] holds seeds of this run only.
C3_ResetClean ==
    /\ pc = "seeding" =>
          \A n \in Nodes : nodes[n].state = "uninfected" /\ nodes[n].infection_time = None
    /\ Len(infection_history) >= 1 =>
          infection_history[1] \subseteq SeqToSet(initial_infected_list)

\* C4 (as claimed): a seed id that is not in the graph is skipped, the run raises
\* no error.
C4_MissingSeedSkipped ==
    (\E i \in 1..Len(initial_infected_list) :
        initial_infected_list[i] \notin Nodes \cup {NoneId}) => pc # "raised"

\* C5 (as claimed): infection_history[0] is exactly the seeds that exist and are
\* not fact-checkers, each with infection_time 0, and both time series start
\* with its size.
C5_SeedCorrectness ==
    Len(infection_history) >= 1 =>
        /\ infection_history[1] = ProperSeeds
        /\ \A s \in ProperSeeds : nodes[s].infection_time = Some(0)
        /\ time_series_new[1] = Cardinality(ProperSeeds)
        /\ time_series_total[1] = Cardinality(ProperSeeds)

\* C6 (as claimed): with horizon < 1 or a default outside [0, 1] the run does not
\* get past its entry: no node is changed and no trace is returned.
C6_InvalidConfigFailsFast ==
    (timesteps < 1 \/ ~ValidDefaults(defaults)) =>
        /\ pc = "initializing"
        /\ nodes = input_nodes
        /\ results = None

\* C7 (as claimed): a second run on an identical graph with the same arguments
\* and the same explicit random_seed returns the same infection_history,
\* time_series_new and time_series_total.
C7_Deterministic ==
    (run > 1 /\ pc = "finalized" /\ random_seed # None) =>
        /\ results[1].infection_history = prev_results[1].infection_history
        /\ results[1].time_series_new = prev_results[1].time_series_new
        /\ results[1].time_series_total = prev_results[1].time_series_total

\* C8 (as claimed): a run with timesteps >= 1 ends by returning a trace, after
\* exactly timesteps steps, whose three lists have timesteps + 1 entries.
C8_HorizonTrace ==
    (timesteps >= 1 /\ pc \in {"finalized", "raised"}) =>
        /\ pc = "finalized"
        /\ t = timesteps + 1
        /\ Len(results[1].infection_history) = timesteps + 1
        /\ Len(results[1].time_series_new) = timesteps + 1
        /\ Len(results[1].time_series_total) = timesteps + 1

\* What holds of C8: every run that returns has taken exactly timesteps steps and
\* returns lists of timesteps + 1 entries.
ReturnedTraceLength ==
    pc = "finalized" =>
        /\ t = timesteps + 1
        /\ Len(results[1].infection_history) = timesteps + 1
        /\ Len(results[1].time_series_new) = timesteps + 1
        /\ Len(results[1].time_series_total) = timesteps + 1

\* C9: for every node exposed in a step, the probability its one draw is compared
\* with is 1 minus the product of (1 - p_i) over its recorded exposures, that
\* is the probability that at least one of them succeeds; two exposures of 0.5
\* give 0.75.
C9_NoisyOr ==
    \A i \in 1..Len(exposures) :
        /\ p_totals[i] = EitherOf(exposures[i].p_list)
        /\ (exposures[i].v \in SeqToSet(newly_infected))
              <=> Less(DrawOfEntry(i), EitherOf(exposures[i].p_list))
        /\ exposures[i].p_list = <<Half, Half>> => p_totals[i] = ThreeQuarters

\* C9's case: a node with exactly the two exposures 0.5 and 0.5, combined to 0.75.
C9_Witness ==
    \E i \in 1..Len(exposures) :
        /\ exposures[i].p_list = <<Half, Half>>
        /\ p_totals[i] = ThreeQuarters

\* C10: no exposure of probability 0 is ever recorded, and every node informed in
\* a step had an exposure of positive probability in that step.
C10_ZeroExcluded ==
    /\ \A i \in 1..Len(exposures) :
          \A j \in 1..Len(exposures[i].p_list) : Positive(exposures[i].p_list[j])
    /\ \A v \in SeqToSet(newly_infected) :
          \E u \in Nodes :
              ExposedBy(u, v) /\ Positive(PExposure(nodes, edges, defaults, u, v))

\* C10's case: in the last step an informed source reached an uninformed node
\* without credulity (so with probability 0), nothing was recorded for that node
\* and it stayed uninformed.
C10_Witness ==
    \E u, v \in Nodes :
        /\ ExposedBy(u, v)
        /\ nodes[v].credulity = None
        /\ ~Positive(PExposure(nodes, edges, defaults, u, v))
        /\ \A i \in 1..Len(exposures) : exposures[i].v # v
        /\ nodes[v].state = "uninfected"
        /\ pc = "finalized"

\* C11 (as claimed): when the run returns, infection_times[n] is the first t with
\* n in infection_history[t], and None for a node that is in no entry.
C11_FirstInformedTime ==
    pc = "finalized" =>
        \A n \in Nodes :
            LET when == {i \in 1..Len(infection_history) : n \in infection_history[i]} IN
            IF when = {}
            THEN results[1].infection_times[n] = None
            ELSE results[1].infection_times[n] =
                    Some((CHOOSE i \in when : \A j \in when : i <= j) - 1)

\* The attributes of a node that are not simulation state.
StaticKeys == {"is_fact_checker", "identity_type", "credulity", "tendency_to_share"}

\* C12: no step of a run changes the node set, the edge set, an edge attribute or
\* a node attribute other than state and infection_time.
C12_FrameUnchanged ==
    [][/\ DOMAIN nodes' = DOMAIN nodes
       /\ edges' = edges
       /\ \A n \in DOMAIN nodes :
             /\ DOMAIN nodes'[n] = DOMAIN nodes[n]
             /\ \A k \in StaticKeys : nodes'[n][k] = nodes[n][k]]_vars

\* C12's case: a run has returned and has changed the state of a node.
C12_Witness ==
    /\ pc = "finalized"
    /\ \E n \in Nodes :
          /\ nodes[n].state # input_nodes[n].state
          /\ nodes[n].infection_time # input_nodes[n].infection_time

\* The sources that exposed v in the last step with positive probability: informed
\* at the end of the step before, not fact-checkers.
SourcesOf(v) ==
    {u \in Nodes : ExposedBy(u, v) /\ Positive(PExposure(nodes, edges, defaults, u, v))}

\* C13: a step reads the state at the end of the step before only: every node
\* newly informed was uninformed then and has a source informed then, and every
\* recorded exposure comes from a source informed then (none from a node
\* informed in this step).
C13_PreviousStateOnly ==
    Steps >= 1 =>
        /\ \A v \in SeqToSet(newly_infected) :
              v \notin InformedBefore /\ SourcesOf(v) # {}
        /\ \A i \in 1..Len(exposures) :
              Len(exposures[i].p_list) = Cardinality(SourcesOf(exposures[i].v))

\* C13's case: a node v was informed in the last step, it has an edge of positive
\* probability to an uninformed node w, and w got no exposure in that step.
C13_Witness ==
    \E v, w \in Nodes :
        /\ Steps >= 1
        /\ v \in SeqToSet(newly_infected)
        /\ <<v, w>> \in DOMAIN edges
        /\ ~IsFactChecker(w)
        /\ nodes[w].state = "uninfected"
        /\ Positive(PExposure(nodes, edges, defaults, v, w))
        /\ \A i \in 1..Len(exposures) : exposures[i].v # w

\* C14 (as claimed): for the state a step starts from and the draws it gets, the
\* set of nodes newly informed is the same for every order in which the informed
\* sources are processed.
C14_OrderIndependent ==
    [][(pc = "stepping" /\ t' = t + 1) =>
          \A order \in IterationOrders(current_infected) :
              SeqToSet(SampleLoop(ExposeSources(nodes, edges, defaults, order, <<>>),
                                  rng, <<>>).newly)
                  = SeqToSet(newly_infected')]_vars

\* C15: no exposure is recorded with a fact-checker as its source: a node never
\* has more recorded exposures than it has informed in-neighbours that are not
\* fact-checkers.
C15_FactCheckerSilent ==
    \A i \in 1..Len(exposures) :
        Len(exposures[i].p_list) <=
            Cardinality({u \in InformedBefore :
                            ~IsFactChecker(u) /\ <<u, exposures[i].v>> \in DOMAIN edges})

\* C15's case: a fact-checker that is named in the seed list and entered the run
\* informed has an edge of positive probability to an uninformed node, and that
\* node got no exposure in the last step.
C15_Witness ==
    \E u, v \in Nodes :
        /\ Steps >= 1
        /\ IsFactChecker(u)
        /\ u \in InformedBefore
        /\ u \in SeqToSet(initial_infected_list)
        /\ <<u, v>> \in DOMAIN edges
        /\ ~IsFactChecker(v)
        /\ nodes[v].state = "uninfected"
        /\ Positive(PExposure(nodes, edges, defaults, u, v))
        /\ \A i \in 1..Len(exposures) : exposures[i].v # v

\* The exposure probability of edge (u, v) as the claim resolves it.
ClaimedTendency(u) ==
    CASE nodes[u].tendency_to_share # None -> nodes[u].tendency_to_share[1]
      [] nodes[u].tendency_to_share = None /\ nodes[u].identity_type = "verified" ->
            defaults.default_propensity_verified
      [] nodes[u].tendency_to_share = None /\ nodes[u].identity_type = "anonymous" ->
            defaults.default_propensity_anonymous

ClaimedTrust(u, v) ==
    CASE edges[<<u, v>>].trust_weight # None -> edges[<<u, v>>].trust_weight[1]
      [] edges[<<u, v>>].trust_weight = None /\ nodes[u].identity_type = "verified" ->
            defaults.default_trust_from_verified
      [] OTHER -> defaults.default_trust_from_anonymous

ClaimedP(u, v) ==
    Mul(Mul(IF nodes[v].credulity = None THEN Zero ELSE nodes[v].credulity[1],
            ClaimedTendency(u)),
        ClaimedTrust(u, v))

\* C16: the probabilities recorded for a node are those of its sources with the
\* defaults resolved by the source's identity_type only, an explicit attribute
\* taking precedence.
C16_DefaultsBySource ==
    \A i \in 1..Len(exposures) :
        SeqToSet(exposures[i].p_list) =
            {ClaimedP(u, exposures[i].v) :
                u \in {w \in Nodes : /\ ExposedBy(w, exposures[i].v)
                                     /\ Positive(ClaimedP(w, exposures[i].v))}}

\* C16's case: an exposure through an edge without trust_weight from a source
\* without tendency_to_share whose identity_type differs from the target's.
C16_Witness ==
    \E i \in 1..Len(exposures) : \E u \in Nodes :
        /\ ExposedBy(u, exposures[i].v)
        /\ nodes[u].tendency_to_share = None
        /\ edges[<<u, exposures[i].v>>].trust_weight = None
        /\ nodes[u].identity_type = "verified"
        /\ nodes[exposures[i].v].identity_type = "anonymous"
        /\ exposures[i].p_list = <<ClaimedP(u, exposures[i].v)>>

\* C17: time_series_total[t] is the size of infection_history[t], and from t = 1
\* on it is time_series_total[t-1] + time_series_new[t], time_series_new[t]
\* being the number of nodes in infection_history[t] and not in
\* infection_history[t-1].
C17_SeriesConsistent ==
    /\ Len(time_series_total) = Len(infection_history)
    /\ Len(time_series_new) = Len(infection_history)
    /\ \A i \in 1..Len(infection_history) :
          /\ time_series_total[i] = Cardinality(infection_history[i])
          /\ i >= 2 =>
                /\ time_series_total[i] = time_series_total[i - 1] + time_series_new[i]
                /\ time_series_new[i] =
                      Cardinality(infection_history[i] \ infection_history[i - 1])

\* C17's case: a step that informed two nodes at once, with nodes informed before.
C17_Witness ==
    /\ Len(infection_history) >= 2
    /\ time_series_new[Len(time_series_new)] >= 2
    /\ time_series_total[Len(time_series_total) - 1] >= 1

\* C18 (as claimed): when the run returns, final_infected holds exactly the nodes
\* of the last infection_history entry: a node has an infection_time exactly
\* when its state is informed.
C18_FinalInfectedIsLastEntry ==
    pc = "finalized" =>
        /\ SeqToSet(results[1].final_infected) = infection_history[Len(infection_history)]
        /\ \A n \in Nodes :
              (nodes[n].infection_time # None) <=> (nodes[n].state = "infected")

\* C19: an uninformed node that is not a fact-checker and has, at the end of the
\* step before, an informed source that is not a fact-checker with exposure
\* probability 1 is informed by the step, whatever the draw.
C19_CertainExposure ==
    \A u, v \in Nodes :
        (ExposedBy(u, v) /\ PExposure(nodes, edges, defaults, u, v) = One)
            => v \in infection_history[Len(infection_history)]

\* C19's case: a node with an exposure of probability 1 was informed in the last
\* step on a draw of 0.75.
C19_Witness ==
    \E u, v \in Nodes : \E i \in 1..Len(exposures) :
        /\ ExposedBy(u, v)
        /\ PExposure(nodes, edges, defaults, u, v) = One
        /\ exposures[i].v = v
        /\ DrawOfEntry(i) = ThreeQuarters
        /\ v \in SeqToSet(newly_infected)

\* C20: whenever the session holds results, the step cursor is an index of their
\* infection_history.
C20_CursorInRange ==
    session_results # None =>
        /\ 0 <= current_timestep
        /\ current_timestep <= Len(session_results[1].infection_history) - 1

\* C20's case: the cursor stands at the end of the stored results and a new run
\* with fewer timesteps has just returned a shorter infection_history.
C20_Witness ==
    /\ pc = "finalized"
    /\ session_results # None
    /\ current_timestep = Len(session_results[1].infection_history) - 1
    /\ Len(results[1].infection_history) <= current_timestep

====
